---- MODULE Spec2Model ----
(***************************************************************************)
(* metaclean: the batch driver (main), the scan report (scan_metadata),    *)
(* the metadata policy (strip_metadata, build_new_exif, is_multiframe)     *)
(* and the atomic writer (save_atomic) of src/metaclean.py, as one         *)
(* sequential process over a small file system.  The image codec (Pillow)  *)
(* is the environment: opening a file yields what the file holds, saving   *)
(* writes what the save options carry.                                      *)
(***************************************************************************)
EXTENDS Integers, Sequences, FiniteSets, TLC

VARIABLES
    args,        \* the parsed command line (never changed after start)
    inputs,      \* the paths files_from_stdin_or_args yields, in order
    fs,          \* the file system: existing path -> content
    pc,          \* the position of the process
    idx,         \* index in inputs of the path the loop is at (0: before)
    any_input,   \* main's any_input
    out,         \* the lines printed to standard output
    exit,        \* exit status of the process (read once pc = "exited")
    img,         \* the opened image handle of strip_metadata (NoImg if none)
    outname,     \* strip_metadata's outname (NoPath if not yet decided)
    save_kwargs, \* the save options strip_metadata passes to save_atomic
    tmp_name,    \* save_atomic's tmp_name (NoPath if none)
    exc,         \* the exception in flight in save_atomic's except clause
    handled,     \* history: the paths the loop body was entered with
    interrupted, \* history: the SIGINT handler has run
    fsops,       \* history: the kinds of file-system operations attempted
    faults,      \* history: the calls of save_atomic that failed so far
    strip_hist   \* history of the latest strip_metadata call: the file system
                 \* (fs0) and the length of out (mark) when it began, the
                 \* changes of the destination path, whether unlink failed,
                 \* the step of save_atomic that raised

vars == <<args, inputs, fs, pc, idx, any_input, out, exit, img, outname,
          save_kwargs, tmp_name, exc, handled, interrupted, fsops, faults,
          strip_hist>>

\* ------------------------------------------------------------------ bounds
MaxFiles == 2       \* longest batch
MaxFaults == 1      \* most calls of save_atomic that fail in one run

\* --------------------------------------------------------------- constants
TAG_DATETIME_ORIGINAL == 36867
TAG_ORIENTATION == 274
TAG_COPYRIGHT == 33432
TAG_GPS_IFD == 34853

SUPPORTED_EXTS == {".jpg", ".jpeg", ".png", ".webp", ".tif", ".tiff"}

\* ------------------------------------------------------------------- paths
\* A path is <dir>/<base>(_clean)^clean<ext>; dir "" is the working directory.
MkPath(d, b, c, e) == [dir |-> d, base |-> b, clean |-> c, ext |-> e]
NoPath == MkPath("?", "?", 0, "?")
DirPath(d) == MkPath("", d, 0, "")
Parent(p) == DirPath(p.dir)

\* str.lower() on the suffixes of the model
Lower(e) ==
    CASE e = ".JPG" -> ".jpg"
      [] e = ".PNG" -> ".png"
      [] e = ".WEBP" -> ".webp"
      [] OTHER -> e

\* outdir / (p.stem + "_clean" + p.suffix)
CleanName(d, p) == MkPath(d, p.base, p.clean + 1, p.ext)

\* ---------------------------------------------------------------- contents
EmptyExif == << >>
NoTags == [t \in {} |-> ""]

Image(fmt, exif, frames, id) ==
    [kind |-> "image", fmt |-> fmt, exif |-> exif, frames |-> frames,
     id |-> id, pixels |-> "asis", icc |-> "none", dpi |-> "none"]
ImageFull(fmt, exif, frames, id, icc, dpi) ==
    [Image(fmt, exif, frames, id) EXCEPT !.icc = icc, !.dpi = dpi]
Junk(id) == [Image("", NoTags, "one", id) EXCEPT !.kind = "junk"]
Dir == [Image("", NoTags, "one", "") EXCEPT !.kind = "dir"]
Partial == [Image("", NoTags, "one", "") EXCEPT !.kind = "partial"]
Blank == [Image("", NoTags, "one", "") EXCEPT !.kind = "empty"]
NoImg == [Image("", NoTags, "one", "") EXCEPT !.kind = "none"]

Exists(f, p) == p \in DOMAIN f
IsDir(f, p) == Exists(f, p) /\ f[p].kind = "dir"
Put(f, p, c) == (p :> c) @@ f
Remove(f, p) == [q \in (DOMAIN f) \ {p} |-> f[q]]

\* ------------------------------------------------------------- tag mappings
NoneText == "<None>"                 \* Python's None for copyright_text
Truthy(text) == text # NoneText /\ text # ""

Min(S) == CHOOSE x \in S : \A y \in S : x <= y

\* Exif.tobytes(): the tags in ascending order, each with its value
RECURSIVE SerTags(_, _)
SerTags(exif, todo) ==
    IF todo = {} THEN << >>
    ELSE LET t == Min(todo) IN <<  <<t, exif[t]>>  >> \o SerTags(exif, todo \ {t})
ToBytes(exif) == SerTags(exif, DOMAIN exif)

\* what a reader of the written file decodes from the serialized tags
Decode(bytes) ==
    [t \in {bytes[i][1] : i \in DOMAIN bytes} |->
        LET i == CHOOSE j \in DOMAIN bytes : bytes[j][1] = t IN bytes[i][2]]

Set(exif, t, v) == (t :> v) @@ exif

BuildNewExifAll(src_exif, keep_date, keep_orientation, copyright_text) ==
    src_exif

build_new_exif(src_exif, keep_date, keep_orientation, copyright_text) ==
    LET e1 == IF keep_date /\ TAG_DATETIME_ORIGINAL \in DOMAIN src_exif
              THEN Set(NoTags, TAG_DATETIME_ORIGINAL, src_exif[TAG_DATETIME_ORIGINAL])
              ELSE NoTags
        e2 == IF keep_orientation /\ TAG_ORIENTATION \in DOMAIN src_exif
              THEN Set(e1, TAG_ORIENTATION, src_exif[TAG_ORIENTATION])
              ELSE e1
    IN  IF Truthy(copyright_text) THEN Set(e2, TAG_COPYRIGHT, copyright_text) ELSE e2

IsMultiframeNever(image) == FALSE

\* frames = "error": reading is_animated / n_frames raises, which is caught
is_multiframe(image) ==
    IF image.frames = "error" THEN FALSE ELSE image.frames = "many"

\* ImageOps.exif_transpose: the orientation tag applied to the pixels
ExifTranspose(image) ==
    IF TAG_ORIENTATION \in DOMAIN image.exif
    THEN [image EXCEPT !.pixels = "transposed"]
    ELSE image

\* ------------------------------------------------------------ save options
NoKwargs == [keys |-> {}, exif |-> EmptyExif, icc_profile |-> "none", dpi |-> "none"]

WithIccDpi(kw, icc_profile, dpi) ==
    [kw EXCEPT
        !.keys = kw.keys \cup (IF icc_profile # "none" THEN {"icc_profile"} ELSE {})
                        \cup (IF dpi # "none" THEN {"dpi"} ELSE {}),
        !.icc_profile = icc_profile,
        !.dpi = dpi]

SaveKwargs(fmt, new_exif, icc_profile, dpi) ==
    IF fmt \in {"JPEG", "JPG", "TIFF", "WEBP"}
    THEN WithIccDpi(
            [NoKwargs EXCEPT
                !.keys = {"exif"} \cup (IF fmt \in {"JPEG", "JPG"}
                                        THEN {"quality", "optimize"} ELSE {}),
                !.exif = IF DOMAIN new_exif # {} THEN ToBytes(new_exif) ELSE EmptyExif],
            icc_profile, dpi)
    ELSE IF fmt = "PNG"
    THEN WithIccDpi([NoKwargs EXCEPT !.keys = {"pnginfo"}], icc_profile, dpi)
    ELSE NoKwargs

\* ------------------------------------------------------------------- codec
FormatOfExt(e) ==
    CASE Lower(e) \in {".jpg", ".jpeg"} -> "JPEG"
      [] Lower(e) = ".png" -> "PNG"
      [] Lower(e) = ".webp" -> "WEBP"
      [] Lower(e) \in {".tif", ".tiff"} -> "TIFF"
      [] OTHER -> ""

\* img.save(tmp_name, **save_kwargs): the file the codec writes
Encoded(image, name, kw) ==
    [kind |-> "image",
     fmt |-> FormatOfExt(name.ext),
     exif |-> IF "exif" \in kw.keys THEN Decode(kw.exif) ELSE NoTags,
     frames |-> "one",
     id |-> image.id,
     pixels |-> image.pixels,
     icc |-> IF "icc_profile" \in kw.keys THEN kw.icc_profile ELSE "none",
     dpi |-> IF "dpi" \in kw.keys THEN kw.dpi ELSE "none"]

\* ------------------------------------------------------------------ output
Line(kind, p) == [kind |-> kind, path |-> p, dest |-> NoPath, tag |-> 0]
LineTo(kind, p, d) == [kind |-> kind, path |-> p, dest |-> d, tag |-> 0]
TagLine(kind, p, t) == [kind |-> kind, path |-> p, dest |-> NoPath, tag |-> t]

RECURSIVE TagLines(_, _)
TagLines(p, todo) ==
    IF todo = {} THEN << >>
    ELSE LET t == Min(todo) IN <<TagLine("TAG", p, t)>> \o TagLines(p, todo \ {t})

\* -------------------------------------------------------------- exceptions
\* "except Exception" (save_atomic, strip_metadata, scan_metadata)
CatchesNothing(kind) == FALSE

Catches(kind) == kind = "Exception"

SaveTry == {"save_encode", "save_encoding", "save_rename"}
StripSaveTry == SaveTry \cup {"save_mkdir", "save_mktemp", "save_cleanup"}
StripTry == StripSaveTry \cup {"strip_open", "strip_prepare", "strip_save_error"}
ScanTry == {"scan_open"}

\* where an exception of `kind` raised at position `at` is handled
Handler(kind, at) ==
    IF ~Catches(kind) THEN "uncaught"
    ELSE IF at \in SaveTry THEN "save_cleanup"
    ELSE IF at \in StripSaveTry THEN "strip_save_error"
    ELSE IF at \in StripTry THEN "strip_open_error"
    ELSE IF at \in ScanTry THEN "scan_open_error"
    ELSE "uncaught"

\* the control transfer of raising `kind` at `at`; an uncaught SystemExit(130)
\* ends the process with status 130, an uncaught Exception with status 1
Raise(kind, at) ==
    LET h == Handler(kind, at) IN
    /\ pc' = IF h = "uncaught" THEN "exited" ELSE h
    /\ exit' = IF h # "uncaught" THEN exit
               ELSE IF kind = "SystemExit" THEN 130 ELSE 1
    /\ exc' = IF h = "save_cleanup" THEN kind ELSE "none"

\* ---------------------------------------------------------------- the world
TmpBase(n) ==
    CASE n = 1 -> "tmp1"
      [] n = 2 -> "tmp2"
      [] n = 3 -> "tmp3"
      [] OTHER -> "tmp4"
TmpPath(d, n, e) == MkPath(d, TmpBase(n), 0, e)
\* NamedTemporaryFile draws names until one is new; the names differ in
\* nothing the program reads, so the model takes the first that is new
NewTmp(f, d, e) ==
    TmpPath(d, Min({n \in 1..(MaxFiles + 1) : ~Exists(f, TmpPath(d, n, e))}), e)

Tags(S) == [t \in S |->
    CASE t = TAG_DATETIME_ORIGINAL -> "2020:01:01"
      [] t = TAG_ORIENTATION -> "6"
      [] t = TAG_COPYRIGHT -> "old"
      [] OTHER -> "gps"]
AllTags == {TAG_DATETIME_ORIGINAL, TAG_ORIENTATION, TAG_COPYRIGHT, TAG_GPS_IFD}

PathAX == MkPath("a", "x", 0, ".jpg")
PathBX == MkPath("b", "x", 0, ".jpg")
PathAZ == MkPath("a", "z", 0, ".WEBP")
PathBad == MkPath("a", "bad", 0, ".tif")
PathTxt == MkPath("a", "n", 0, ".txt")

\* the files of the batch runs
FS0 ==
    (DirPath("a") :> Dir) @@ (DirPath("b") :> Dir) @@ (DirPath("out") :> Dir)
    @@ (DirPath("f") :> Junk("F"))
    @@ (PathAX :> Image("JPEG", Tags(AllTags), "one", "AX"))
    @@ (PathBX :> Image("JPEG", NoTags, "one", "BX"))
    @@ (PathAZ :> Image("WEBP", Tags({TAG_DATETIME_ORIGINAL}), "many", "AZ"))
    @@ (PathBad :> Junk("BAD"))
    @@ (PathTxt :> Junk("TXT"))

Candidates == {PathAX, PathBX, PathAZ, PathBad, PathTxt, DirPath("a")}

SeqsUpTo(S, n) == UNION {[1..k -> S] : k \in 0..n}

DefaultArgs ==
    [scan |-> FALSE, strip |-> FALSE, positives |-> FALSE, show_gps |-> FALSE,
     copyright |-> NoneText, keep_date |-> FALSE, keep_orientation |-> FALSE,
     keep_icc |-> FALSE, keep_dpi |-> FALSE, force |-> FALSE, inplace |-> FALSE,
     outdir |-> "out"]

\* The command lines of the batch runs.  A flag the selected modes never read
\* stays at its default.
ScanArgs ==
    {[DefaultArgs EXCEPT !.scan = TRUE, !.positives = m[1], !.show_gps = m[2]] :
        m \in {<<FALSE, FALSE>>, <<FALSE, TRUE>>, <<TRUE, FALSE>>}}
StripArgsOf(a) ==
    {[a EXCEPT !.strip = TRUE, !.inplace = TRUE, !.force = f] : f \in BOOLEAN}
    \cup {[a EXCEPT !.strip = TRUE, !.force = f] : f \in BOOLEAN}
    \cup {[a EXCEPT !.strip = TRUE, !.outdir = d] : d \in {"new", "f"}}
BatchArgs ==
    {DefaultArgs} \cup ScanArgs
    \cup UNION {StripArgsOf(a) : a \in {DefaultArgs} \cup {b \in ScanArgs : ~b.show_gps}}

NoHist == [fs0 |-> FS0, mark |-> 0, destwrites |-> 0, unlink_failed |-> FALSE,
           failed |-> "none"]

Init ==
    /\ args \in BatchArgs
    /\ inputs \in SeqsUpTo(Candidates, MaxFiles)
    /\ fs = FS0
    /\ pc = "main_mode"
    /\ idx = 0
    /\ any_input = FALSE
    /\ out = << >>
    /\ exit = 0
    /\ img = NoImg
    /\ outname = NoPath
    /\ save_kwargs = NoKwargs
    /\ tmp_name = NoPath
    /\ exc = "none"
    /\ handled = << >>
    /\ interrupted = FALSE
    /\ fsops = {}
    /\ faults = 0
    /\ strip_hist = NoHist

locals == <<img, outname, save_kwargs, tmp_name>>
batch == <<args, inputs, idx, any_input, handled, faults>>

Content(f, p) == IF Exists(f, p) THEN f[p] ELSE [Blank EXCEPT !.kind = "absent"]

\* a change of the file system, counted when it changes the destination path
Write(f) ==
    /\ fs' = f
    /\ strip_hist' = [strip_hist EXCEPT !.destwrites =
            IF outname # NoPath /\ Content(f, outname) # Content(fs, outname)
            THEN @ + 1 ELSE @]

Goto(l) == pc' = l /\ exit' = exit /\ exc' = "none"
Say(lines) == out' = out \o lines
Op(k) == fsops' = fsops \cup {k}

\* --------------------------------------------------------------------- main
\* lines 302-305: require at least one mode
MainMode ==
    /\ pc = "main_mode"
    /\ IF ~args.scan /\ ~args.strip
       THEN /\ Say(<<Line("USAGE", NoPath)>>)
            /\ pc' = "exited" /\ exit' = 0 /\ exc' = "none"
       ELSE /\ Goto("main_outdir")
            /\ UNCHANGED out
    /\ UNCHANGED <<batch, locals, fs, interrupted, fsops, strip_hist>>

\* lines 307-309: Path(args.outdir).mkdir(parents=True, exist_ok=True)
MainOutdir ==
    /\ pc = "main_outdir"
    /\ IF args.strip /\ ~args.inplace
       THEN /\ Op("mkdir")
            /\ IF Exists(fs, DirPath(args.outdir)) /\ ~IsDir(fs, DirPath(args.outdir))
               THEN Raise("Exception", pc) /\ UNCHANGED <<fs, strip_hist>>
               ELSE Goto("loop") /\ Write(Put(fs, DirPath(args.outdir), Dir))
       ELSE Goto("loop") /\ UNCHANGED <<fs, fsops, strip_hist>>
    /\ UNCHANGED <<batch, locals, out, interrupted>>

\* lines 312-313: the next path of the generator, or the end of the loop
Loop ==
    /\ pc = "loop"
    /\ IF idx < Len(inputs)
       THEN /\ idx' = idx + 1
            /\ any_input' = TRUE
            /\ handled' = Append(handled, inputs[idx + 1])
            /\ Goto("main_filter")
       ELSE /\ Goto("main_end")
            /\ UNCHANGED <<idx, any_input, handled>>
    /\ UNCHANGED <<args, inputs, faults, locals, fs, out, interrupted, fsops,
                   strip_hist>>

AfterFilter == IF args.scan THEN "scan_open" ELSE "strip_open"
AfterScan == IF args.strip THEN "strip_open" ELSE "loop"

\* lines 314-324: skip directories and unsupported file types
MainFilter ==
    /\ pc = "main_filter"
    /\ Op("stat")
    /\ LET p == inputs[idx] IN
       IF IsDir(fs, p)
       THEN Say(<<Line("SKIP_DIR", p)>>) /\ Goto("loop")
       ELSE IF Lower(p.ext) \notin SUPPORTED_EXTS
       THEN Say(<<Line("SKIP_TYPE", p)>>) /\ Goto("loop")
       ELSE UNCHANGED out /\ Goto(AfterFilter)
    /\ UNCHANGED <<batch, locals, fs, interrupted, strip_hist>>

\* lines 349-354
MainEnd ==
    /\ pc = "main_end"
    /\ IF ~any_input
       THEN Say(<<Line(IF ~(args.scan \/ args.strip) THEN "USAGE" ELSE "INFO_NOFILES",
                       NoPath)>>)
       ELSE UNCHANGED out
    /\ pc' = "exited" /\ exit' = 0 /\ exc' = "none"
    /\ UNCHANGED <<batch, locals, fs, interrupted, fsops, strip_hist>>

\* -------------------------------------------------------------------- scan
IsImage(f, p) == Exists(f, p) /\ f[p].kind = "image"

\* lines 57-59: Image.open(path), img.getexif()
ScanOpen ==
    /\ pc = "scan_open"
    /\ Op("open")
    /\ IF IsImage(fs, inputs[idx])
       THEN Goto("scan_report")
       ELSE Raise("Exception", pc)
    /\ UNCHANGED <<batch, locals, fs, out, interrupted, strip_hist>>

\* lines 60-63, then main's lines 329-331 with has_meta = False
ScanOpenError ==
    /\ pc = "scan_open_error"
    /\ IF ~args.positives
       THEN Say(<<Line("ERROR_OPEN", inputs[idx])>>)
       ELSE UNCHANGED out
    /\ Goto(AfterScan)
    /\ UNCHANGED <<batch, locals, fs, interrupted, fsops, strip_hist>>

\* lines 65-86 on the mapping read at line 59 (the file has not changed
\* since), then main's lines 329-331
ScanReport ==
    /\ pc = "scan_report"
    /\ LET p == inputs[idx]
           exif == fs[p].exif
           verbose == ~args.positives
           has_meta == DOMAIN exif # {}
       IN  Say((IF ~has_meta
                THEN IF verbose THEN <<Line("INFO_NOEXIF", p)>> ELSE << >>
                ELSE IF verbose
                THEN <<Line("HEADER", p)>> \o TagLines(p, DOMAIN exif)
                     \o (IF args.show_gps /\ TAG_GPS_IFD \in DOMAIN exif
                         THEN <<Line("GPS_HEADER", p), TagLine("GPS", p, TAG_GPS_IFD)>>
                         ELSE << >>)
                ELSE << >>)
               \o (IF args.positives /\ has_meta THEN <<Line("PATH", p)>> ELSE << >>))
    /\ Goto(AfterScan)
    /\ UNCHANGED <<batch, locals, fs, interrupted, fsops, strip_hist>>

\* ---------------------------------------------------------- strip_metadata
\* lines 150-155
Outname(p) ==
    IF args.inplace THEN p
    ELSE CleanName(IF args.outdir # "" THEN args.outdir ELSE p.dir, p)

\* lines 133-143: open the image, read format, tags, ICC and DPI; skip an
\* animated image unless forced
StripOpen ==
    /\ pc = "strip_open"
    /\ Op("open")
    /\ strip_hist' = [NoHist EXCEPT !.fs0 = fs, !.mark = Len(out)]
    /\ outname' = NoPath /\ save_kwargs' = NoKwargs /\ tmp_name' = NoPath
    /\ LET p == inputs[idx] IN
       IF ~IsImage(fs, p)
       THEN /\ Raise("Exception", pc)
            /\ img' = NoImg
            /\ UNCHANGED out
       ELSE IF is_multiframe(fs[p]) /\ ~args.force
       THEN /\ Say(<<Line("SKIP_ANIM", p)>>)
            /\ img' = NoImg
            /\ Goto("loop")
       ELSE /\ img' = fs[p]
            /\ UNCHANGED out
            /\ Goto("strip_prepare")
    /\ UNCHANGED <<batch, fs, interrupted>>

\* lines 145-181: transpose, decide the output name, build the tags to keep
\* and the save options
StripPrepare ==
    /\ pc = "strip_prepare"
    /\ img' = IF ~args.keep_orientation THEN ExifTranspose(img) ELSE img
    /\ outname' = Outname(inputs[idx])
    /\ save_kwargs' =
          SaveKwargs(img.fmt,
                     build_new_exif(img.exif, args.keep_date, args.keep_orientation,
                                    args.copyright),
                     IF args.keep_icc THEN img.icc ELSE "none",
                     IF args.keep_dpi THEN img.dpi ELSE "none")
    /\ Goto("save_mkdir")
    /\ UNCHANGED <<batch, tmp_name, fs, out, interrupted, fsops, strip_hist>>

run == <<args, inputs, idx, any_input, handled>>

\* the call of save_atomic fails at `step` with an error
Fail(step) ==
    /\ faults < MaxFaults
    /\ faults' = faults + 1
    /\ Raise("Exception", pc)
    /\ fs' = fs
    /\ strip_hist' = [strip_hist EXCEPT !.failed = step]

\* line 110: outpath.parent.mkdir(parents=True, exist_ok=True)
SaveMkdir ==
    /\ pc = "save_mkdir"
    /\ Op("mkdir")
    /\ IF Exists(fs, Parent(outname)) /\ ~IsDir(fs, Parent(outname))
       THEN /\ Raise("Exception", pc)
            /\ fs' = fs /\ strip_hist' = [strip_hist EXCEPT !.failed = "mkdir"]
       ELSE /\ Goto("save_mktemp")
            /\ Write(Put(fs, Parent(outname), Dir))
    /\ UNCHANGED <<batch, locals, out, interrupted>>

\* lines 111-112: a new, empty temporary file in the destination directory,
\* with the destination's suffix, under a name no file has
SaveMktemp ==
    /\ pc = "save_mktemp"
    /\ Op("create")
    /\ \/ /\ Fail("mktemp")
          /\ UNCHANGED tmp_name
       \/ /\ tmp_name' = NewTmp(fs, outname.dir, outname.ext)
          /\ Write(Put(fs, tmp_name', Blank))
          /\ Goto("save_encode")
          /\ UNCHANGED faults
    /\ UNCHANGED <<run, img, outname, save_kwargs, out, interrupted>>

SaveTargetDirect(tmp, outpath) == outpath

\* line 114: the file img.save writes to
SaveTarget(tmp, outpath) == tmp

\* line 114, first half: the codec starts writing, or fails before it does
SaveEncode ==
    /\ pc = "save_encode"
    /\ Op("write")
    /\ \/ Fail("encode")
       \/ /\ Write(Put(fs, SaveTarget(tmp_name, outname), Partial))
          /\ Goto("save_encoding")
          /\ UNCHANGED faults
    /\ UNCHANGED <<run, locals, out, interrupted>>

\* line 114, second half: the codec completes the file, or fails half way
SaveEncoding ==
    /\ pc = "save_encoding"
    /\ \/ Fail("encode")
       \/ /\ Write(Put(fs, SaveTarget(tmp_name, outname),
                       Encoded(img, tmp_name, save_kwargs)))
          /\ Goto("save_rename")
          /\ UNCHANGED faults
    /\ UNCHANGED <<run, locals, out, interrupted, fsops>>

\* line 116: Path(tmp_name).replace(outpath)
SaveRename ==
    /\ pc = "save_rename"
    /\ Op("rename")
    /\ \/ Fail("rename")
       \/ /\ Write(Put(Remove(fs, tmp_name), outname, fs[tmp_name]))
          /\ Goto("strip_report")
          /\ UNCHANGED faults
    /\ UNCHANGED <<run, locals, out, interrupted>>

UnlinkForgotten(f, p) == f

\* line 120: Path(tmp_name).unlink(missing_ok=True), when it succeeds
Unlink(f, p) == Remove(f, p)

\* lines 117-123: delete the temporary file (a failure to delete is
\* swallowed) and re-raise
SaveCleanup ==
    /\ pc = "save_cleanup"
    /\ Op("unlink")
    /\ \/ /\ fs' = Unlink(fs, tmp_name)
          /\ UNCHANGED strip_hist
       \/ /\ fs' = fs
          /\ strip_hist' = [strip_hist EXCEPT !.unlink_failed = TRUE]
    /\ Raise(exc, pc)
    /\ UNCHANGED <<batch, locals, out, interrupted>>

\* lines 185-187, 200-202, 208-210
StripSaveError ==
    /\ pc = "strip_save_error"
    /\ Say(<<LineTo("ERROR_SAVE", inputs[idx], outname)>>)
    /\ Goto("loop")
    /\ UNCHANGED <<batch, locals, fs, interrupted, fsops, strip_hist>>

\* lines 212-214
StripOpenError ==
    /\ pc = "strip_open_error"
    /\ Say(<<Line("ERROR_OPEN", inputs[idx])>>)
    /\ Goto("loop")
    /\ UNCHANGED <<batch, locals, fs, interrupted, fsops, strip_hist>>

\* line 207 (the fallback's warning), lines 216-222
StripReport ==
    /\ pc = "strip_report"
    /\ Say((IF img.fmt \notin {"JPEG", "JPG", "TIFF", "WEBP", "PNG"}
            THEN <<Line("WARN", inputs[idx])>> ELSE << >>)
           \o <<LineTo("OK", inputs[idx], outname)>>
           \o (IF Truthy(args.copyright)
               THEN <<LineTo("OK_COPYRIGHT", inputs[idx], outname)>> ELSE << >>))
    /\ Goto("loop")
    /\ UNCHANGED <<batch, locals, fs, interrupted, fsops, strip_hist>>

\* ---------------------------------------------------------------- interrupt
\* lines 296-300: handle_sigint prints [ABORT] and raises SystemExit(130) at
\* the position the process is at
Interrupt ==
    /\ pc # "exited"
    /\ ~interrupted
    /\ interrupted' = TRUE
    /\ Say(<<Line("ABORT", NoPath)>>)
    /\ Raise("SystemExit", pc)
    /\ UNCHANGED <<batch, locals, fs, fsops, strip_hist>>

StripSteps ==
    \/ StripOpen \/ StripPrepare
    \/ SaveMkdir \/ SaveMktemp \/ SaveEncode \/ SaveEncoding \/ SaveRename
    \/ SaveCleanup
    \/ StripSaveError \/ StripOpenError \/ StripReport

Steps ==
    \/ MainMode \/ MainOutdir \/ Loop \/ MainFilter \/ MainEnd
    \/ ScanOpen \/ ScanOpenError \/ ScanReport
    \/ StripSteps

Next == Steps \/ Interrupt

Spec == Init /\ [][Next]_vars

\* ------------------------------------------------- one call of strip_metadata
\* The runs of strip_metadata on one file: every format the codec reports,
\* every source tag mapping, every frame report, every policy.
FormatExt(fmt) ==
    CASE fmt = "JPEG" -> ".jpg"
      [] fmt = "PNG" -> ".PNG"
      [] fmt = "WEBP" -> ".webp"
      [] fmt = "TIFF" -> ".tif"
      [] OTHER -> ".jpeg"          \* an MPO file: a camera's multi-picture JPEG

Formats == {"JPEG", "PNG", "WEBP", "TIFF", "MPO"}
KeptTags == {TAG_DATETIME_ORIGINAL, TAG_ORIENTATION, TAG_COPYRIGHT}
SourceMappings == {Tags(S) : S \in SUBSET KeptTags} \cup {Tags({TAG_GPS_IFD}), Tags(AllTags)}

StripFiles ==
    {Image(fmt, e, fr, "SRC") : fmt \in Formats, e \in SourceMappings,
                                fr \in {"one", "many", "error"}}
    \cup {ImageFull("JPEG", Tags(AllTags), "one", "SRC", i, d) :
            i \in {"none", "icc"}, d \in {"none", "dpi"}}
    \cup {ImageFull("PNG", NoTags, "one", "SRC", "icc", "dpi")}
    \cup {Junk("SRC")}

StripArgs ==
    {[DefaultArgs EXCEPT !.strip = TRUE, !.force = f, !.inplace = i, !.copyright = c,
                         !.keep_date = kd, !.keep_orientation = ko] :
        f \in BOOLEAN, i \in BOOLEAN, c \in {NoneText, "", "X"},
        kd \in BOOLEAN, ko \in BOOLEAN}
IccArgs ==
    {[DefaultArgs EXCEPT !.strip = TRUE, !.keep_icc = ki, !.keep_dpi = kp] :
        ki \in BOOLEAN, kp \in BOOLEAN}

StripPath(c) == MkPath("a", "x", 0, IF c.kind = "image" THEN FormatExt(c.fmt) ELSE ".jpg")

InitStrip ==
    /\ \E c \in StripFiles :
          /\ args \in (IF c.icc = "none" /\ c.dpi = "none" THEN StripArgs ELSE IccArgs)
                      \cup (IF c.fmt = "JPEG" /\ DOMAIN c.exif = AllTags /\ c.frames = "one"
                            THEN IccArgs ELSE {})
          /\ inputs = <<StripPath(c)>>
          /\ fs = (DirPath("a") :> Dir) @@ (DirPath("out") :> Dir) @@ (StripPath(c) :> c)
    /\ pc = "strip_open"
    /\ idx = 1
    /\ any_input = TRUE
    /\ out = << >>
    /\ exit = 0
    /\ img = NoImg
    /\ outname = NoPath
    /\ save_kwargs = NoKwargs
    /\ tmp_name = NoPath
    /\ exc = "none"
    /\ handled = inputs
    /\ interrupted = FALSE
    /\ fsops = {}
    /\ faults = 0
    /\ strip_hist = [NoHist EXCEPT !.fs0 = fs]

NextStrip == StripSteps \/ Interrupt

SpecStrip == InitStrip /\ [][NextStrip]_vars

\* ------------------------------------------------------------------ claims
\* what the latest strip_metadata call printed
Printed == SubSeq(out, strip_hist.mark + 1, Len(out))
Kinds(lines) == {lines[i].kind : i \in DOMAIN lines}
Succeeded == "OK" \in Kinds(Printed)
Before(p) == Content(strip_hist.fs0, p)
\* the step of save_atomic that raised was the encode or the rename
SaveFailed == strip_hist.failed \in {"encode", "rename"}
\* save_atomic has returned to strip_metadata
Returned == pc \in {"strip_save_error", "loop"}
\* the input of the latest strip_metadata call, as it was when the call began
Source == Before(inputs[idx])

\* C1, as stated: when the encode or the rename of save_atomic fails, then
\* after the call the destination holds what it held before, no temporary
\* file of the call remains, and strip_metadata reports [ERROR] and no [OK].
C1_AsStated ==
    SaveFailed =>
        /\ pc \in {"save_cleanup", "strip_save_error", "loop", "exited"}
        /\ Content(fs, outname) = Before(outname)
        /\ Returned => ~Exists(fs, tmp_name)
        /\ pc = "loop" => Kinds(Printed) = {"ERROR_SAVE"}

\* C1, amended: when the encode or the rename of save_atomic fails, then
\* after the call the destination holds what it held before, the error
\* reaches strip_metadata, which reports [ERROR] and no [OK], and the
\* temporary file of the call is gone unless deleting it failed as well.
C1_SaveFailureCleansUp ==
    SaveFailed =>
        /\ pc \in {"save_cleanup", "strip_save_error", "loop", "exited"}
        /\ Content(fs, outname) = Before(outname)
        /\ Returned => (Exists(fs, tmp_name) => strip_hist.unlink_failed)
        /\ Returned => (strip_hist.unlink_failed => Exists(fs, tmp_name))
        /\ pc = "loop" => Kinds(Printed) = {"ERROR_SAVE"}

C1_Witness ==
    /\ pc = "loop"
    /\ strip_hist.failed = "encode"
    /\ ~strip_hist.unlink_failed
    /\ tmp_name # NoPath
    /\ ~Exists(fs, tmp_name)
    /\ Exists(fs, outname)

\* C2: during a strip the destination path holds either what it held when
\* the strip began (or nothing) or the complete encoded image, never a
\* partial file, and it changes at most once, by the rename that moves the
\* temporary file onto it.
C2_DestinationNeverPartial ==
    outname # NoPath =>
        /\ Content(fs, outname).kind \notin {"partial", "empty"}
        /\ \/ Content(fs, outname) = Before(outname)
           \/ Content(fs, outname) = Encoded(img, outname, save_kwargs)
        /\ strip_hist.destwrites <= 1
        /\ strip_hist.destwrites = 1 =>
              /\ "rename" \in fsops
              /\ pc \in {"strip_report", "loop", "exited"}
              /\ ~Exists(fs, tmp_name)

C2_Witness ==
    /\ pc = "strip_report"
    /\ Exists(strip_hist.fs0, outname)
    /\ strip_hist.destwrites = 1
    /\ fs[outname] = Encoded(img, outname, save_kwargs)
    /\ fs[outname] # Before(outname)
    /\ ~Exists(fs, tmp_name)

\* the paths whose content differs from what it was when the strip began
Changed == {p \in (DOMAIN fs) \cup (DOMAIN strip_hist.fs0) : Content(fs, p) # Before(p)}

\* C4: an animated input without force is skipped: [SKIP] is printed, no
\* temporary file is created, nothing is written and no [OK] is printed;
\* with force, and no failure, exactly one file is written: the destination.
C4_AnimatedSkippedUnlessForced ==
    (Source.kind = "image" /\ Source.frames = "many") =>
        /\ ~args.force =>
              /\ fs = strip_hist.fs0
              /\ "create" \notin fsops
              /\ tmp_name = NoPath
              /\ pc \in {"strip_open", "loop", "exited"}
              /\ pc = "loop" => Kinds(Printed) = {"SKIP_ANIM"}
              /\ ~Succeeded
        /\ (args.force /\ pc = "loop" /\ strip_hist.failed = "none") =>
              /\ Succeeded
              /\ Changed = {outname}
              /\ fs[outname].kind = "image"
              /\ fs[outname].frames = "one"
              /\ fs[outname].id = Source.id

C4_Witness ==
    /\ pc = "loop"
    /\ Source.kind = "image" /\ Source.frames = "many"
    /\ ~args.force
    /\ Len(Printed) = 1
    /\ Printed[1].kind = "SKIP_ANIM"

\* C5: a successful strip of a JPEG, PNG, WEBP or TIFF with no keep flag
\* and no copyright text writes a file with no tag: build_new_exif yields
\* the empty mapping and the save options carry no tag.
C5_StripLeavesNoTags ==
    (/\ pc = "loop" /\ Succeeded
     /\ Source.fmt \in {"JPEG", "PNG", "WEBP", "TIFF"}
     /\ ~args.keep_date /\ ~args.keep_orientation /\ ~Truthy(args.copyright)) =>
        /\ DOMAIN fs[outname].exif = {}
        /\ DOMAIN build_new_exif(Source.exif, args.keep_date, args.keep_orientation,
                                 args.copyright) = {}
        /\ save_kwargs.exif = EmptyExif

C5_Witness ==
    /\ pc = "loop" /\ Succeeded
    /\ Source.fmt = "TIFF"
    /\ DOMAIN Source.exif = AllTags
    /\ ~args.keep_date /\ ~args.keep_orientation /\ args.copyright = ""
    /\ DOMAIN fs[outname].exif = {}

\* C6, as stated: a successful strip with copyright text X writes a file
\* whose tag mapping has Copyright = X, whatever the format and the source
\* tags.
C6_AsStated ==
    (pc = "loop" /\ Succeeded /\ Truthy(args.copyright)) =>
        /\ TAG_COPYRIGHT \in DOMAIN fs[outname].exif
        /\ fs[outname].exif[TAG_COPYRIGHT] = args.copyright

\* creating the output directory (line 309) does not fail
PrologueOk ==
    ~(/\ args.strip /\ ~args.inplace
      /\ Exists(FS0, DirPath(args.outdir)) /\ ~IsDir(FS0, DirPath(args.outdir)))
\* the batch loop has been reached
InLoop == (args.scan \/ args.strip) /\ PrologueOk /\ pc \notin {"main_mode", "main_outdir"}

\* C3: without an interrupt the batch loop takes the paths in order, is
\* never stopped by what happens to one of them (it can always take its next
\* step), and ends normally only after the last path.
C3_BatchHandlesEveryPath ==
    (InLoop /\ ~interrupted) =>
        /\ idx <= Len(inputs)
        /\ handled = SubSeq(inputs, 1, idx)
        /\ pc = "exited" => (handled = inputs /\ exit = 0)
        /\ pc # "exited" => ENABLED Steps

C3_Witness ==
    /\ pc = "exited" /\ ~interrupted /\ exit = 0
    /\ handled = inputs
    /\ \E i, j \in DOMAIN out :
          /\ i < j
          /\ out[i].kind \in {"ERROR_SAVE", "ERROR_OPEN"}
          /\ out[j].kind = "OK"
          /\ out[i].path # out[j].path

HasTags(p) == IsImage(FS0, p) /\ DOMAIN FS0[p].exif # {}
PathLines(paths) ==
    LET sel == SelectSeq(paths, HasTags) IN [i \in 1..Len(sel) |-> Line("PATH", sel[i])]

\* C7, as stated: a run with --scan --positives and without --strip prints
\* the paths of the inputs whose tag mapping is not empty, in input order,
\* and nothing else.
C7_AsStated ==
    (args.scan /\ args.positives /\ ~args.strip /\ pc = "exited" /\ ~interrupted) =>
        out = PathLines(inputs)

\* C8, as stated: a run with no mode selected, or with no input path,
\* creates no directory, opens no image and writes no file.
C8_AsStated ==
    ((~args.scan /\ ~args.strip) \/ Len(inputs) = 0) =>
        (fs = FS0 /\ "open" \notin fsops)

\* the first half of C9: an interrupt ends the process with [ABORT] and
\* status 130, whatever the position it arrives at
InterruptAborts ==
    interrupted => (pc = "exited" /\ exit = 130 /\ out[Len(out)].kind = "ABORT")

\* C9, as stated: an interrupt ends the process with [ABORT] and status 130;
\* every run that ends without an interrupt ends with status 0.
C9_AsStated ==
    /\ InterruptAborts
    /\ (pc = "exited" /\ ~interrupted) => exit = 0

Distinct(seq) == \A i, j \in DOMAIN seq : i # j => seq[i] # seq[j]

\* C10, as stated: after a batch with --strip and without --inplace over
\* distinct paths, every input reported [OK] has its own cleaned image at
\* its destination, and no input file has been replaced.
C10_AsStated ==
    (/\ args.strip /\ ~args.inplace /\ Distinct(inputs)
     /\ pc = "exited" /\ ~interrupted /\ exit = 0) =>
        /\ \A i \in DOMAIN out :
              out[i].kind = "OK" =>
                 /\ IsImage(fs, out[i].dest)
                 /\ fs[out[i].dest].id = FS0[out[i].path].id
        /\ \A i \in DOMAIN inputs : Content(fs, inputs[i]) = Content(FS0, inputs[i])
====
